---- MODULE Spec2Model ----
(***************************************************************************)
(* Model of SnowSim/Particle.cpp: the per-particle elastoplastic update of  *)
(* a 2D material-point snow simulation.                                     *)
(*                                                                          *)
(* Numbers.  A float is modelled by an exact rational <<n, d>> in lowest    *)
(* terms with d > 0, and by NaN == <<0, 0>>.  NaN absorbs every arithmetic  *)
(* operation and makes every ordered comparison false, as in IEEE-754.      *)
(* Rounding is not modelled: the properties below are the exact-arithmetic  *)
(* forms of statements the specification makes "to floating-point           *)
(* tolerance".                                                              *)
(*                                                                          *)
(* The hardened Lame parameters are products c * exp(x).  exp of a rational *)
(* is not rational, so such a value is kept symbolically as the record      *)
(* [c |-> c, x |-> x]; a plain float v is [c |-> v, x |-> 0].               *)
(***************************************************************************)
EXTENDS Integers, Sequences, FiniteSets, TLC

----------------------------------------------------------------------------
(* Exact rational arithmetic with NaN *)

NaN == <<0, 0>>

IsNaN(a) == a[2] = 0

Abs(n) == IF n < 0 THEN -n ELSE n

RECURSIVE GCD(_, _)
GCD(a, b) == IF b = 0 THEN a ELSE GCD(b, a % b)

Norm(n, d) ==
    IF d = 0 THEN NaN
    ELSE LET g == GCD(Abs(n), Abs(d))
             s == IF d < 0 THEN -1 ELSE 1
         IN  <<(s * n) \div g, (s * d) \div g>>

R(n, d) == Norm(n, d)

Zero == <<0, 1>>
One == <<1, 1>>

\* the sum over the least common denominator
RAdd(a, b) ==
    IF IsNaN(a) \/ IsNaN(b) THEN NaN
    ELSE IF a[1] = 0 THEN b
    ELSE IF b[1] = 0 THEN a
    ELSE IF a[2] = b[2] THEN Norm(a[1] + b[1], a[2])
    ELSE LET g == GCD(a[2], b[2])
         IN  Norm(a[1] * (b[2] \div g) + b[1] * (a[2] \div g), (a[2] \div g) * b[2])

RNeg(a) == IF IsNaN(a) THEN NaN ELSE <<-a[1], a[2]>>

RSub(a, b) == RAdd(a, RNeg(b))

\* the product, with the common factors cancelled before multiplying
RMul(a, b) ==
    IF IsNaN(a) \/ IsNaN(b) THEN NaN
    ELSE IF a[1] = 0 \/ b[1] = 0 THEN Zero
    ELSE IF a[2] = 1 /\ b[2] = 1 THEN <<a[1] * b[1], 1>>
    ELSE LET g1 == GCD(Abs(a[1]), b[2])
             g2 == GCD(Abs(b[1]), a[2])
         IN  <<(a[1] \div g1) * (b[1] \div g2), (a[2] \div g2) * (b[2] \div g1)>>

\* x / 0 is +-Inf or NaN in IEEE-754; the model has no infinities and gives NaN
RDiv(a, b) ==
    IF IsNaN(a) \/ IsNaN(b) \/ b[1] = 0 THEN NaN
    ELSE RMul(a, IF b[1] < 0 THEN <<-b[2], -b[1]>> ELSE <<b[2], b[1]>>)

\* a < b; false when either side is NaN
RLess(a, b) == ~IsNaN(a) /\ ~IsNaN(b) /\ a[1] * b[2] < b[1] * a[2]

\* a <= b; false when either side is NaN
RLeq(a, b) == ~IsNaN(a) /\ ~IsNaN(b) /\ a[1] * b[2] <= b[1] * a[2]

----------------------------------------------------------------------------
(* Vector2f and Matrix2f: a vector is <<x, y>>, a matrix <<row1, row2>>;    *)
(* the source's m[i][j] is m[i+1][j+1] here.                                *)

Vec(x, y) == <<x, y>>
Mat(a, b, c, d) == <<<<a, b>>, <<c, d>>>>

ZeroVec == Vec(Zero, Zero)
ZeroMat == Mat(Zero, Zero, Zero, Zero)
Identity == Mat(One, Zero, Zero, One)
NaNMat == Mat(NaN, NaN, NaN, NaN)

VAdd(u, v) == Vec(RAdd(u[1], v[1]), RAdd(u[2], v[2]))
VScale(k, v) == Vec(RMul(k, v[1]), RMul(k, v[2]))

MAdd(A, B) == Mat(RAdd(A[1][1], B[1][1]), RAdd(A[1][2], B[1][2]),
                  RAdd(A[2][1], B[2][1]), RAdd(A[2][2], B[2][2]))
MSub(A, B) == Mat(RSub(A[1][1], B[1][1]), RSub(A[1][2], B[1][2]),
                  RSub(A[2][1], B[2][1]), RSub(A[2][2], B[2][2]))
MScale(k, A) == Mat(RMul(k, A[1][1]), RMul(k, A[1][2]),
                    RMul(k, A[2][1]), RMul(k, A[2][2]))
MMul(A, B) ==
    Mat(RAdd(RMul(A[1][1], B[1][1]), RMul(A[1][2], B[2][1])),
        RAdd(RMul(A[1][1], B[1][2]), RMul(A[1][2], B[2][2])),
        RAdd(RMul(A[2][1], B[1][1]), RMul(A[2][2], B[2][1])),
        RAdd(RMul(A[2][1], B[1][2]), RMul(A[2][2], B[2][2])))
MVec(A, v) == Vec(RAdd(RMul(A[1][1], v[1]), RMul(A[1][2], v[2])),
                  RAdd(RMul(A[2][1], v[1]), RMul(A[2][2], v[2])))
Transpose(A) == Mat(A[1][1], A[2][1], A[1][2], A[2][2])
Determinant(A) == RSub(RMul(A[1][1], A[2][2]), RMul(A[1][2], A[2][1]))
\* the matrix of signed minors
Cofactor(A) == Mat(A[2][2], RNeg(A[2][1]), RNeg(A[1][2]), A[1][1])
FrobeniusInnerProduct(A, B) ==
    RAdd(RAdd(RMul(A[1][1], B[1][1]), RMul(A[1][2], B[1][2])),
         RAdd(RMul(A[2][1], B[2][1]), RMul(A[2][2], B[2][2])))
\* u * w^T
DyadicProduct(u, w) == Mat(RMul(u[1], w[1]), RMul(u[1], w[2]),
                           RMul(u[2], w[1]), RMul(u[2], w[2]))
\* add k to both diagonal entries
DiagSum(A, k) == Mat(RAdd(A[1][1], k), A[1][2], A[2][1], RAdd(A[2][2], k))
\* A * diag(v): column j scaled by v[j]
DiagProduct(A, v) == Mat(RMul(A[1][1], v[1]), RMul(A[1][2], v[2]),
                         RMul(A[2][1], v[1]), RMul(A[2][2], v[2]))
\* A * diag(1/v): column j divided by v[j]
DiagProductInv(A, v) == Mat(RDiv(A[1][1], v[1]), RDiv(A[1][2], v[2]),
                            RDiv(A[2][1], v[1]), RDiv(A[2][2], v[2]))

----------------------------------------------------------------------------
(* Matrix2f::svd.  The decomposition routine is outside Particle.cpp.  Its  *)
(* contract: A = w * diag(e) * v^T with w, v orthogonal and e >= 0; the     *)
(* order of the singular values and the signs of the columns are the        *)
(* routine's own choice.  The model returns every decomposition that meets  *)
(* the contract with w and v among the rotations with rational entries      *)
(* listed in Orthogonal (the singular values are then rational too).        *)

\* the rotations by multiples of a quarter turn
QuarterTurns ==
    { Identity, Mat(Zero, R(-1, 1), One, Zero),
      Mat(R(-1, 1), Zero, Zero, R(-1, 1)), Mat(Zero, One, R(-1, 1), Zero) }

\* the rotation with cosine 3/5 and sine 4/5
Rot345 == Mat(R(3, 5), R(-4, 5), R(4, 5), R(3, 5))

Orthogonal == QuarterTurns \cup { MMul(Rot345, Q) : Q \in QuarterTurns }

Dot(A, i, B, j) == RAdd(RMul(A[1][i], B[1][j]), RMul(A[2][i], B[2][j]))

SVD(A) ==
    UNION { LET B == MMul(A, v) IN
            IF Dot(B, 1, B, 2) # Zero THEN {}
            ELSE { [w |-> w, e |-> Vec(Dot(w, 1, B, 1), Dot(w, 2, B, 2)), v |-> v] :
                   w \in { x \in Orthogonal :
                             /\ Dot(x, 2, B, 1) = Zero
                             /\ Dot(x, 1, B, 2) = Zero
                             /\ RLeq(Zero, Dot(x, 1, B, 1))
                             /\ RLeq(Zero, Dot(x, 2, B, 2)) } }
          : v \in Orthogonal }

----------------------------------------------------------------------------
(* Values of the form c * exp(x).  A zero or NaN coefficient has x = 0.     *)

HNorm(c, x) == IF c = Zero \/ IsNaN(c) \/ IsNaN(x) THEN
                   [c |-> IF IsNaN(x) THEN NaN ELSE c, x |-> Zero]
               ELSE [c |-> c, x |-> x]

\* a plain float
Plain(c) == HNorm(c, Zero)

\* exp(x)
Exp(x) == HNorm(One, x)

\* k * h for a plain k
HScale(k, h) == HNorm(RMul(k, h.c), h.x)

\* a <= b for two values c * exp(x): decided when the coefficients are equal
\* (exp is increasing and positive) or when the signs alone decide it
HLeq(a, b) ==
    /\ ~IsNaN(a.c) /\ ~IsNaN(b.c)
    /\ \/ a.c = b.c /\ RLess(Zero, a.c) /\ RLeq(a.x, b.x)
       \/ a.c = b.c /\ RLess(a.c, Zero) /\ RLeq(b.x, a.x)
       \/ RLeq(a.c, Zero) /\ RLeq(Zero, b.c)

\* exp(x) * m for a matrix m of plain floats; a zero m has x = 0
ScaledMat(m, x) == IF m = ZeroMat THEN [m |-> m, x |-> Zero]
                   ELSE [m |-> m, x |-> x]

\* exp(x) * v for a vector v of plain floats; a zero v has x = 0
ScaledVec(v, x) == IF v = ZeroVec THEN [m |-> v, x |-> Zero]
                   ELSE [m |-> v, x |-> x]

\* m * h: every entry of the plain matrix m times c * exp(x)
SMScale(h, m) == ScaledMat(MScale(h.c, m), h.x)

\* a + b for scaled matrices: exact when the exponents agree or a side is zero.
\* mu and lambda always carry the same exponent, so no other case arises.
SMAdd(a, b) ==
    IF a.x = b.x THEN ScaledMat(MAdd(a.m, b.m), a.x)
    ELSE IF a.m = ZeroMat THEN b
    ELSE IF b.m = ZeroMat THEN a
    ELSE ScaledMat(NaNMat, Zero)

\* k * a for a plain k and a scaled matrix a
SMTimes(k, a) == ScaledMat(MScale(k, a.m), a.x)

\* a * B for a scaled matrix a and a plain matrix B
SMMul(a, B) == ScaledMat(MMul(a.m, B), a.x)

\* a * v for a scaled matrix a and a plain vector v
SMVec(a, v) == ScaledVec(MVec(a.m, v), a.x)

SVAdd(a, b) ==
    IF a.x = b.x THEN ScaledVec(VAdd(a.m, b.m), a.x)
    ELSE IF a.m = ZeroVec THEN b
    ELSE IF b.m = ZeroVec THEN a
    ELSE ScaledVec(Vec(NaN, NaN), Zero)

SVScale(k, a) == ScaledVec(VScale(k, a.m), a.x)

----------------------------------------------------------------------------
(* Compile-time constants of the simulation.  Their definitions are outside *)
(* Particle.cpp; the values satisfy what the specification requires of      *)
(* them: TIMESTEP > 0, 0 < CRIT_COMPRESS < 1 < CRIT_STRETCH, HARDENING >= 0,*)
(* MATRIX_EPSILON > 0.                                                      *)

TIMESTEP == R(1, 2)
CRIT_COMPRESS == R(1, 2)
CRIT_STRETCH == R(3, 2)
HARDENING == R(5, 1)
MATRIX_EPSILON == R(1, 4)

----------------------------------------------------------------------------
(* Bounds and input sets *)

\* updateGradient calls in a behaviour
MaxSteps == 2
\* updatePos calls in a behaviour
MaxMoves == 1

\* what an uninitialised float may hold: a finite value or NaN
Indeterminate == { R(3, 1), NaN }

\* constructor arguments <<lame_lambda, lame_mu>>
LameArgs == { <<R(2, 1), R(1, 1)>>, <<R(1, 1), R(-1, 1)>> }

\* velocity gradients the grid writes before updateGradient:
\* with I + TIMESTEP*vg equal to
\*   the identity (no deformation),
\*   diag(1/4, 2) (compression below and stretch above the elastic range),
\*   Rot345 * diag(3/2, 1) (a rotation with an in-range stretch on one axis),
\*   diag(0, 1) (a singular step),
\*   Rot345 * diag(3/2, 3/4) * Rot345^T (a shear with oblique axes).
\* A step whose tentative elastic gradient has no decomposition in SVD is
\* outside the model and is not taken.
VelocityGradients ==
    { ZeroMat,
      Mat(R(-3, 2), Zero, Zero, R(2, 1)),
      MScale(R(2, 1), MSub(DiagProduct(Rot345, Vec(R(3, 2), One)), Identity)),
      Mat(R(-2, 1), Zero, Zero, Zero),
      MScale(R(2, 1), MSub(MMul(DiagProduct(Rot345, Vec(R(3, 2), R(3, 4))),
                                Transpose(Rot345)), Identity)) }

\* particle volumes the grid's rasterisation writes
Volumes == { R(2, 1) }

\* arguments <<u, weight_grad>> of deltaForce
ForceArgs ==
    { <<Vec(R(1, 1), Zero), Vec(R(1, 1), Zero)>>,
      <<Vec(R(-1, 1), Zero), Vec(R(1, 1), Zero)>>,
      <<Vec(R(1, 4), R(1, 4)), Vec(R(1, 1), R(-1, 1))>>,
      <<Vec(R(1, 1), R(1, 1)), Vec(R(1, 1), R(-1, 1))>> }

----------------------------------------------------------------------------
VARIABLES
    position, velocity, mass, volume,
    lambda_s, mu_s, lambda, mu,
    def_elastic, def_plastic, det_elastic, det_plastic,
    velocity_gradient,
    svd_w, svd_e, svd_v, polar_r, polar_s,
    f_all,      \* the local f_all of the last updateGradient call
    svd_raw,    \* svd_e as Matrix2f::svd returned it, before the clamp
    ret,        \* the value the last call returned, with its arguments
    log,        \* <<det_plastic, mu, lambda>> after each updateGradient call
    steps, moves

fields == <<position, velocity, mass, volume, lambda_s, mu_s, lambda, mu,
            def_elastic, def_plastic, det_elastic, det_plastic,
            velocity_gradient, svd_w, svd_e, svd_v, polar_r, polar_s>>

vars == <<fields, f_all, svd_raw, ret, log, steps, moves>>

NoReturn == [op |-> "none"]

\* Particle::Particle(pos, vel, mass, lame_lambda, lame_mu).  volume, mu,
\* lambda and velocity_gradient are not assigned and hold indeterminate values.
Init ==
    /\ position = ZeroVec
    /\ velocity = Vec(R(1, 1), R(-1, 2))
    /\ mass = One
    /\ \E a \in LameArgs : lambda_s = a[1] /\ mu_s = a[2]
    /\ def_elastic = Identity
    /\ def_plastic = Identity
    /\ det_elastic = One
    /\ det_plastic = One
    /\ svd_e = Vec(One, One)
    /\ svd_w = Identity
    /\ svd_v = Identity
    /\ polar_r = Identity
    /\ polar_s = Identity
    /\ \E g \in Indeterminate :
          /\ volume = g
          /\ mu = Plain(g)
          /\ lambda = Plain(g)
          /\ velocity_gradient = Mat(g, g, g, g)
    /\ f_all = Identity
    /\ svd_raw = Vec(One, One)
    /\ ret = NoReturn
    /\ log = <<>>
    /\ steps = 0
    /\ moves = 0

\* Particle::updatePos
UpdatePos ==
    /\ moves < MaxMoves
    /\ position' = VAdd(position, VScale(TIMESTEP, velocity))
    /\ moves' = moves + 1
    /\ ret' = NoReturn
    /\ UNCHANGED <<velocity, mass, volume, lambda_s, mu_s, lambda, mu,
                   def_elastic, def_plastic, det_elastic, det_plastic,
                   velocity_gradient, svd_w, svd_e, svd_v, polar_r, polar_s,
                   f_all, svd_raw, log, steps>>

----------------------------------------------------------------------------
(* Particle::updateGradient *)

\* velocity_gradient *= TIMESTEP; velocity_gradient.diag_sum(1)
IncrementalDeformation(vg) == DiagSum(MScale(TIMESTEP, vg), One)

\* ClampSV without the upper bound
ClampSVNoUpper(s) == IF RLess(s, CRIT_COMPRESS) THEN CRIT_COMPRESS ELSE s

\* ClampSV without the lower bound
ClampSVNoLower(s) == IF RLess(CRIT_STRETCH, s) THEN CRIT_STRETCH ELSE s

\* the clamp of one singular value to the elastic range
ClampSV(s) ==
    IF RLess(s, CRIT_COMPRESS) THEN CRIT_COMPRESS
    ELSE IF RLess(CRIT_STRETCH, s) THEN CRIT_STRETCH
    ELSE s

\* polar_r: svd_w * svd_v^T
PolarR(w, v) == MMul(w, Transpose(v))

\* polar_s: (svd_v * diag(svd_e)) * svd_v^T
PolarS(v, e) == MMul(DiagProduct(v, e), Transpose(v))

\* ReconstructPlastic with diag_product in place of diag_product_inv
ReconstructPlasticNoInverse(w, e, v, f) ==
    MMul(MMul(DiagProduct(v, e), Transpose(w)), f)

\* def_plastic: (svd_v * diag(1/svd_e)) * svd_w^T * f_all
ReconstructPlastic(w, e, v, f) ==
    MMul(MMul(DiagProductInv(v, e), Transpose(w)), f)

\* ReconstructElastic with svd_v in place of its transpose
ReconstructElasticNoTranspose(w, e, v) == MMul(DiagProduct(w, e), v)

\* def_elastic: (svd_w * diag(svd_e)) * svd_v^T
ReconstructElastic(w, e, v) == MMul(DiagProduct(w, e), Transpose(v))

\* the cached determinant left at the constructor's value
CachedDeterminantStale(A) == One

\* det_elastic, det_plastic: the determinant of the reconstructed gradient
CachedDeterminant(A) == Determinant(A)

\* HardeningScale with the sign of the exponent reversed
HardeningScaleReversed(detp) == Exp(RMul(HARDENING, RSub(detp, One)))

\* scale = exp(HARDENING*(1-det_plastic))
HardeningScale(detp) == Exp(RMul(HARDENING, RSub(One, detp)))

\* One decomposition step.  The grid first writes its inputs (volume from the
\* rasterisation, the velocity gradient vg), then calls updateGradient.
UpdateGradient ==
    /\ steps < MaxSteps
    /\ volume' \in Volumes
    /\ \E vg \in VelocityGradients :
         LET inc == IncrementalDeformation(vg)
             tentative == MMul(inc, def_elastic)
             fall == MMul(tentative, def_plastic)
         IN  \E d \in SVD(tentative) :
               LET e == Vec(ClampSV(d.e[1]), ClampSV(d.e[2]))
                   fp == ReconstructPlastic(d.w, e, d.v, fall)
                   fe == ReconstructElastic(d.w, e, d.v)
                   detp == CachedDeterminant(fp)
                   scale == HardeningScale(detp)
               IN  /\ velocity_gradient' = inc
                   /\ f_all' = fall
                   /\ svd_raw' = d.e
                   /\ svd_w' = d.w
                   /\ svd_v' = d.v
                   /\ svd_e' = e
                   /\ polar_r' = PolarR(d.w, d.v)
                   /\ polar_s' = PolarS(d.v, e)
                   /\ def_plastic' = fp
                   /\ def_elastic' = fe
                   /\ det_elastic' = CachedDeterminant(fe)
                   /\ det_plastic' = detp
                   /\ mu' = HScale(mu_s, scale)
                   /\ lambda' = HScale(lambda_s, scale)
                   /\ log' = Append(log, <<detp, HScale(mu_s, scale),
                                           HScale(lambda_s, scale)>>)
    /\ steps' = steps + 1
    /\ ret' = NoReturn
    /\ UNCHANGED <<position, velocity, mass, lambda_s, mu_s, moves>>

----------------------------------------------------------------------------
(* Particle::cauchyStress: the returned value *)

CauchyStressValue ==
    SMTimes(volume,
            SMAdd(SMMul(SMScale(HScale(R(2, 1), mu), MSub(def_elastic, polar_r)),
                        Transpose(def_elastic)),
                  SMScale(HScale(RMul(det_elastic, RSub(det_elastic, One)), lambda),
                          Identity)))

\* cauchyStress computing temp in def_elastic itself instead of in a copy
CauchyStressInPlace ==
    /\ ret' = [op |-> "cauchyStress", val |-> CauchyStressValue]
    /\ def_elastic' = MScale(RMul(R(2, 1), mu.c), MSub(def_elastic, polar_r))
    /\ UNCHANGED <<position, velocity, mass, volume, lambda_s, mu_s, lambda, mu,
                   def_plastic, det_elastic, det_plastic, velocity_gradient,
                   svd_w, svd_e, svd_v, polar_r, polar_s,
                   f_all, svd_raw, log, steps, moves>>

\* Particle::cauchyStress
CauchyStress ==
    /\ ret' = [op |-> "cauchyStress", val |-> CauchyStressValue]
    /\ UNCHANGED <<fields, f_all, svd_raw, log, steps, moves>>

----------------------------------------------------------------------------
(* Particle::deltaForce *)

\* del_elastic = TIMESTEP*u.dyadic_product(weight_grad)*def_elastic
DelElastic(u, weight_grad) ==
    MMul(MScale(TIMESTEP, DyadicProduct(u, weight_grad)), def_elastic)

\* the early-out test on absolute values
NegligibleAbs(del) ==
    \A i \in 1..2, j \in 1..2 :
        /\ RLess(del[i][j], MATRIX_EPSILON)
        /\ RLess(RNeg(MATRIX_EPSILON), del[i][j])

\* the early-out test: every entry below MATRIX_EPSILON
Negligible(del) ==
    /\ RLess(del[1][1], MATRIX_EPSILON) /\ RLess(del[1][2], MATRIX_EPSILON)
    /\ RLess(del[2][1], MATRIX_EPSILON) /\ RLess(del[2][2], MATRIX_EPSILON)

\* y: the one independent entry of R^T*dF - dF^T*R
SkewEntry(del_elastic) ==
    RSub(RAdd(RMul(polar_r[1][1], del_elastic[2][1]),
              RMul(polar_r[2][1], del_elastic[2][2])),
         RAdd(RMul(polar_r[1][2], del_elastic[1][1]),
              RMul(polar_r[2][2], del_elastic[1][2])))

\* del_rotate from x
DelRotate(x) == Mat(RNeg(RMul(polar_r[2][1], x)), RMul(polar_r[1][1], x),
                    RNeg(RMul(polar_r[2][2], x)), RMul(polar_r[1][2], x))

\* lambda * (cofactor*<cofactor, del_elastic> + del_cofactor*(det_elastic-1))
ContourTerm(cofactor, del_elastic) ==
    SMScale(lambda,
            MAdd(MScale(FrobeniusInnerProduct(cofactor, del_elastic), cofactor),
                 MScale(RSub(det_elastic, One), Cofactor(del_elastic))))

\* volume*(Ap*(def_elastic^T*weight_grad))
ForceOf(Ap, weight_grad) ==
    SVScale(volume, SMVec(Ap, MVec(Transpose(def_elastic), weight_grad)))

\* the value computed when the early-out is not taken
FullDeltaForce(del_elastic, weight_grad) ==
    ForceOf(SMAdd(SMScale(HScale(R(2, 1), mu),
                          MSub(del_elastic,
                               DelRotate(RDiv(SkewEntry(del_elastic),
                                              RAdd(polar_s[1][1], polar_s[2][2]))))),
                  ContourTerm(Cofactor(def_elastic), del_elastic)),
            weight_grad)

DeltaForceValue(u, weight_grad) ==
    LET del_elastic == DelElastic(u, weight_grad)
    IN  IF Negligible(del_elastic) THEN ScaledVec(ZeroVec, Zero)
        ELSE FullDeltaForce(del_elastic, weight_grad)

\* Particle::deltaForce(u, weight_grad)
DeltaForce ==
    /\ \E a \in ForceArgs :
         ret' = [op |-> "deltaForce", u |-> a[1], w |-> a[2],
                 val |-> DeltaForceValue(a[1], a[2])]
    /\ UNCHANGED <<fields, f_all, svd_raw, log, steps, moves>>

----------------------------------------------------------------------------
Next == UpdatePos \/ UpdateGradient \/ CauchyStress \/ DeltaForce

Spec == Init /\ [][Next]_vars

----------------------------------------------------------------------------
(* Properties *)

InRange(s) == RLeq(CRIT_COMPRESS, s) /\ RLeq(s, CRIT_STRETCH)

\* a step of the behaviour is an updateGradient call
UpdateStep == steps' = steps + 1

\* the Lame parameters and the volume hold numbers
Finite == ~IsNaN(volume) /\ ~IsNaN(mu.c) /\ ~IsNaN(lambda.c)

Scalars == { R(-1, 1), R(4, 1) }

\* C1: for a fixed state (here: after an updateGradient call, with positive
\* Lame parameters) and a fixed weight_grad, deltaForce(a*u1 + b*u2, w) equals
\* a*deltaForce(u1, w) + b*deltaForce(u2, w) for all scalars a, b and vectors
\* u1, u2, whichever side of the MATRIX_EPSILON early-out the inputs fall on.
C1_DeltaForceLinear ==
    (steps > 0 /\ Finite /\ RLess(Zero, mu_s) /\ RLess(Zero, lambda_s)) =>
        \A p1 \in ForceArgs, p2 \in ForceArgs, a \in Scalars, b \in Scalars :
            DeltaForceValue(VAdd(VScale(a, p1[1]), VScale(b, p2[1])), p1[2]) =
                SVAdd(SVScale(a, DeltaForceValue(p1[1], p1[2])),
                      SVScale(b, DeltaForceValue(p2[1], p1[2])))

\* C2: in every reachable state the cached determinants equal the
\* determinants of the stored gradients.
C2_DeterminantsCached ==
    /\ det_elastic = Determinant(def_elastic)
    /\ det_plastic = Determinant(def_plastic)

C2_Witness ==
    /\ steps = MaxSteps
    /\ det_plastic # One
    /\ det_elastic # One
    /\ ret.op = "deltaForce"

\* C3: when updateGradient returns, def_elastic * def_plastic equals f_all,
\* that is ((I + TIMESTEP*velocity_gradient_in) * def_elastic_old) *
\* def_plastic_old, whether or not a singular value was clamped.
C3_ReconstructionKeepsTotal ==
    [][UpdateStep =>
         /\ f_all' = MMul(MMul(velocity_gradient', def_elastic), def_plastic)
         /\ MMul(def_elastic', def_plastic') = f_all']_vars

\* a clamped step on an already plastically deformed particle
C3_Witness ==
    /\ steps = 2
    /\ svd_raw # svd_e
    /\ f_all # def_elastic
    /\ MMul(def_elastic, def_plastic) = f_all
    /\ log[1][1] # One

\* C4: after every updateGradient call both stored singular values lie in
\* [CRIT_COMPRESS, CRIT_STRETCH]: a value below CRIT_COMPRESS has become
\* CRIT_COMPRESS, a value above CRIT_STRETCH has become CRIT_STRETCH, a value
\* in the range is unchanged.
C4_SingularValuesClamped ==
    steps > 0 =>
        \A i \in 1..2 :
            /\ InRange(svd_e[i])
            /\ RLess(svd_raw[i], CRIT_COMPRESS) => svd_e[i] = CRIT_COMPRESS
            /\ RLess(CRIT_STRETCH, svd_raw[i]) => svd_e[i] = CRIT_STRETCH
            /\ InRange(svd_raw[i]) => svd_e[i] = svd_raw[i]

\* one value clamped from below, the other from above, in the same call
C4_Witness ==
    /\ steps > 0
    /\ \E i \in 1..2, j \in 1..2 :
          /\ RLess(svd_raw[i], CRIT_COMPRESS) /\ svd_e[i] = CRIT_COMPRESS
          /\ RLess(CRIT_STRETCH, svd_raw[j]) /\ svd_e[j] = CRIT_STRETCH

\* C5: cauchyStress and deltaForce leave every particle field unchanged, and a
\* call repeated with the same arguments returns the same value.
C5_ReadOnly ==
    [][ret'.op \in {"cauchyStress", "deltaForce"} =>
         /\ fields' = fields
         /\ (ret.op = "cauchyStress" /\ ret'.op = "cauchyStress") => ret' = ret
         /\ (ret.op = "deltaForce" /\ ret'.op = "deltaForce"
                /\ ret'.u = ret.u /\ ret'.w = ret.w) => ret' = ret]_vars

C5_Witness ==
    /\ steps > 0
    /\ ret.op = "deltaForce"
    /\ ret.val.m # ZeroVec
    /\ def_elastic # Identity

\* C6: cauchyStress called right after the 5-argument constructor, with no
\* updateGradient call in between, returns the zero matrix whatever the
\* fields the constructor does not set hold.
C6_NoInitialStress ==
    (steps = 0 /\ ret.op = "cauchyStress") => ret.val.m = ZeroMat

\* C7 as stated: whenever det_plastic after a later updateGradient call is
\* smaller than after an earlier one, mu and lambda after the later call are
\* not smaller than after the earlier call.
C7_HardeningMonotoneAnyLame ==
    \A i \in DOMAIN log, j \in DOMAIN log :
        (i < j /\ RLess(log[j][1], log[i][1])) =>
            /\ HLeq(log[i][2], log[j][2])
            /\ HLeq(log[i][3], log[j][3])

\* C7 amended: the same, for mu when the rest parameter mu_s is not negative
\* and for lambda when lambda_s is not negative.
C7_HardeningMonotone ==
    \A i \in DOMAIN log, j \in DOMAIN log :
        (i < j /\ RLess(log[j][1], log[i][1])) =>
            /\ RLeq(Zero, mu_s) => HLeq(log[i][2], log[j][2])
            /\ RLeq(Zero, lambda_s) => HLeq(log[i][3], log[j][3])

\* compaction between two calls, with mu strictly larger after the later one
C7_Witness ==
    /\ Len(log) = 2
    /\ RLess(log[2][1], log[1][1])
    /\ RLess(Zero, mu_s)
    /\ log[1][2] # log[2][2]
    /\ HLeq(log[1][2], log[2][2])
    /\ mu = log[2][2]

\* every entry below MATRIX_EPSILON by the raw comparison
AllBelowEpsilon(del) ==
    \A i \in 1..2, j \in 1..2 : RLess(del[i][j], MATRIX_EPSILON)

\* C8: if all four entries of del_elastic are below MATRIX_EPSILON (raw <, so
\* also entries that are negative with a large magnitude), deltaForce returns
\* the exact zero vector; otherwise it returns the full formula's value.
C8_ZeroShortCircuit ==
    ret.op = "deltaForce" =>
        IF AllBelowEpsilon(DelElastic(ret.u, ret.w))
        THEN ret.val = [m |-> ZeroVec, x |-> Zero]
        ELSE ret.val = FullDeltaForce(DelElastic(ret.u, ret.w), ret.w)

\* the early-out taken on an entry that is negative with a large magnitude
C8_Witness ==
    /\ steps > 0
    /\ ret.op = "deltaForce"
    /\ AllBelowEpsilon(DelElastic(ret.u, ret.w))
    /\ \E i \in 1..2, j \in 1..2 :
          RLess(DelElastic(ret.u, ret.w)[i][j], RNeg(MATRIX_EPSILON))
    /\ ret.val.m = ZeroVec

\* C9: an updateGradient call in which no singular value is clamped leaves
\* def_plastic, det_plastic and the hardening scale of mu and lambda unchanged
\* and sets def_elastic to (I + TIMESTEP*velocity_gradient_in) * def_elastic_old;
\* from the constructed state with a zero velocity gradient def_elastic and
\* def_plastic stay the identity and cauchyStress then returns the zero matrix.
C9_ElasticStep ==
    [][/\ (UpdateStep /\ InRange(svd_raw'[1]) /\ InRange(svd_raw'[2])) =>
            /\ def_plastic' = def_plastic
            /\ det_plastic' = det_plastic
            /\ mu' = HScale(mu_s, Exp(RMul(HARDENING, RSub(One, det_plastic))))
            /\ lambda' = HScale(lambda_s, Exp(RMul(HARDENING, RSub(One, det_plastic))))
            /\ steps > 0 => (mu' = mu /\ lambda' = lambda)
            /\ def_elastic' = MMul(velocity_gradient', def_elastic)
       /\ (UpdateStep /\ steps = 0 /\ velocity_gradient' = Identity) =>
            (def_elastic' = Identity /\ def_plastic' = Identity)
       /\ (ret'.op = "cauchyStress" /\ steps' = 1 /\ velocity_gradient' = Identity) =>
            ret'.val.m = ZeroMat]_vars

\* an unclamped, non-trivial step on an already plastically deformed particle
C9_Witness ==
    /\ steps = 2
    /\ svd_raw = svd_e
    /\ velocity_gradient # Identity
    /\ def_plastic # Identity
    /\ log[1][1] = log[2][1]

\* C10: in every reachable state both svd_e entries are strictly positive, and
\* polar_s[0][0] + polar_s[1][1] equals svd_e[0] + svd_e[1], which is at least
\* 2*CRIT_COMPRESS > 0: the divisor of deltaForce is never zero.
C10_NoDivisionByZero ==
    /\ RLess(Zero, svd_e[1])
    /\ RLess(Zero, svd_e[2])
    /\ RAdd(polar_s[1][1], polar_s[2][2]) = RAdd(svd_e[1], svd_e[2])
    /\ RLeq(RMul(R(2, 1), CRIT_COMPRESS), RAdd(polar_s[1][1], polar_s[2][2]))
    /\ RLess(Zero, RAdd(polar_s[1][1], polar_s[2][2]))

\* a singular tentative gradient: Matrix2f::svd returned a zero singular value
C10_Witness ==
    /\ steps > 0
    /\ (svd_raw[1] = Zero \/ svd_raw[2] = Zero)
    /\ ret.op = "deltaForce"

====
